---- MODULE Spec2Model ----
(***************************************************************************)
(* Model of the shift planner: the shift generator with its per-date hour  *)
(* decomposition, the conflict analyser, the CP-SAT model built by         *)
(* ShiftOptimizer, the lexicographic driver solve_lexicographic, the       *)
(* extraction of the Solution and the verifier.                            *)
(*                                                                         *)
(* Time is counted in whole hours from 00:00 of day 1 of the month; a date *)
(* is its day number (day NumDays + 1 is the first day of the next month). *)
(* Hour quantities the code keeps in centihours are 100 x hours here too.  *)
(* Employees and posts are identified by their position in the Config's    *)
(* lists, which is also the iteration order of the code's dictionaries.    *)
(***************************************************************************)
EXTENDS Integers, Sequences, FiniteSets, TLC

VARIABLES cfg, sunday_strategy, pc, level, added, vals, solution, solved, verification,
          error, call, result

vars == <<cfg, sunday_strategy, pc, level, added, vals, solution, solved, verification,
          error, call, result>>

(***************************************************************************)
(* Bounds of the model.                                                    *)
(***************************************************************************)
\* days of the planned month (calendar.monthrange cut down to NumDays)
NumDays == 2
\* how far above its lower bound the solver may leave he_hours[e]
HeSlack == 1

(***************************************************************************)
(* Small helpers.                                                          *)
(***************************************************************************)
Min2(a, b) == IF a <= b THEN a ELSE b
Max2(a, b) == IF a >= b THEN a ELSE b

RECURSIVE SumOver(_, _)
\* sum(f[k] for k in S)
SumOver(S, f) ==
    IF S = {} THEN 0
    ELSE LET k == CHOOSE k \in S : TRUE IN f[k] + SumOver(S \ {k}, f)

SeqRange(s) == {s[i] : i \in 1..Len(s)}

\* the set S with its elements listed once (a set given by a condition is otherwise
\* recomputed wherever it is enumerated)
Enumerate(S) == {s : s \in S}

SetMax(S) == CHOOSE m \in S : \A n \in S : n <= m
SetMin(S) == CHOOSE m \in S : \A n \in S : m <= n

(***************************************************************************)
(* Calendar.                                                               *)
(***************************************************************************)
\* date.weekday() of day d: Monday is 0, Sunday is 6
Weekday(c, d) == (c.first_weekday + d - 1) % 7

IsSundayDate(c, d) == Weekday(c, d) = 6

\* datetime.date() of an instant and the instant of a date's midnight
DateOf(t) == (t \div 24) + 1
Midnight(d) == 24 * (d - 1)

Employees(c) == 1..Len(c.employees)
Posts(c) == 1..Len(c.posts)

(***************************************************************************)
(* Hour decomposition (shift_generator.py).                                *)
(***************************************************************************)
\* a faulty overlap: the difference is taken even when the intervals do not meet
OverlapUnclamped(a1, b1, a2, b2) == Min2(b1, b2) - Max2(a1, a2)

\* length of the overlap of [a1, b1) and [a2, b2), 0 when they do not overlap
OverlapHours(a1, b1, a2, b2) ==
    LET lo == Max2(a1, a2)
        hi == Min2(b1, b2)
    IN IF hi > lo THEN hi - lo ELSE 0

\* a faulty _split_day_night_hours: the hours before day_start are not counted
SplitWithoutMorning(period_start, period_end, work_date, day_start, night_start) ==
    LET m == Midnight(work_date)
    IN <<OverlapHours(period_start, period_end, m + day_start, m + night_start),
         OverlapHours(period_start, period_end, m + night_start, m + 24)>>

\* _split_day_night_hours: <<day_hours, night_hours>> of [period_start, period_end) on work_date
SplitDayNightHours(period_start, period_end, work_date, day_start, night_start) ==
    LET m == Midnight(work_date)
        day_hours == OverlapHours(period_start, period_end, m + day_start, m + night_start)
        evening == OverlapHours(period_start, period_end, m + night_start, m + 24)
        morning == OverlapHours(period_start, period_end, m, m + day_start)
    IN <<day_hours, evening + morning>>

RECURSIVE HoursWalk(_, _, _, _)
\* the while loop of calculate_hours_by_day, from current_time on: the DayHours it emits
HoursWalk(c, current_time, shift_end, acc) ==
    IF current_time >= shift_end THEN acc
    ELSE LET current_date == DateOf(current_time)
             day_end == Min2(shift_end, Midnight(current_date + 1))
             total == day_end - current_time
             dn == SplitDayNightHours(current_time, day_end, current_date,
                                      c.day_start, c.night_start)
             entry == [date |-> current_date,
                       total_hours |-> total,
                       day_hours |-> dn[1],
                       night_hours |-> dn[2],
                       is_sunday |-> IsSundayDate(c, current_date),
                       is_holiday |-> current_date \in c.holidays]
         IN HoursWalk(c, day_end, shift_end,
                      IF total > 0 THEN {e \in acc : e.date # current_date} \cup {entry}
                      ELSE acc)

\* calculate_hours_by_day: the dict date -> DayHours
CalculateHoursByDay(c, shift_start, shift_end) ==
    LET dict(entries) == [d \in {e.date : e \in entries} |-> CHOOSE e \in entries : e.date = d]
    IN dict(HoursWalk(c, shift_start, shift_end, {}))

(***************************************************************************)
(* Shift generation (shift_generator.py).                                  *)
(***************************************************************************)
\* the list shift_start_times: <<start hour of day, slot label>>
ShiftStartTimes(c) ==
    LET base == c.shift_start_time
        len == c.shift_length_hours
    IN IF len = 12 THEN << <<base, "DAY">>, <<(base + 12) % 24, "NIGHT">> >>
       ELSE IF len = 8 THEN << <<base, "DAY">>, <<(base + 8) % 24, "DAY">>,
                               <<(base + 16) % 24, "NIGHT">> >>
       ELSE [i \in 1..(24 \div len) |->
                LET st == (base + (i - 1) * len) % 24
                IN <<st, IF st >= c.night_start \/ st < c.day_start THEN "NIGHT" ELSE "DAY">>]

\* a faulty create_shift: the flags are those of the date the shift starts on
CreateShiftFlaggedByStartDate(c, post_id, shift_date, start_time, shift_type) ==
    LET start_datetime == Midnight(shift_date) + start_time
        end_datetime == start_datetime + c.shift_length_hours
        Shift(hours_by_day) ==
            [post_id |-> post_id,
             date |-> shift_date,
             start_time |-> start_time,
             duration_hours |-> c.shift_length_hours,
             is_night |-> (shift_type = "NIGHT"),
             is_sunday |-> IsSundayDate(c, shift_date),
             is_holiday |-> (shift_date \in c.holidays),
             shift_id |-> <<post_id, shift_date, shift_type>>,
             hours_by_day |-> hours_by_day]
    IN Shift(CalculateHoursByDay(c, start_datetime, end_datetime))

\* create_shift
CreateShift(c, post_id, shift_date, start_time, shift_type) ==
    LET start_datetime == Midnight(shift_date) + start_time
        end_datetime == start_datetime + c.shift_length_hours
        Shift(hours_by_day) ==
            [post_id |-> post_id,
             date |-> shift_date,
             start_time |-> start_time,
             duration_hours |-> c.shift_length_hours,
             is_night |-> (shift_type = "NIGHT"),
             is_sunday |-> (\E d \in DOMAIN hours_by_day : hours_by_day[d].is_sunday),
             is_holiday |-> (\E d \in DOMAIN hours_by_day : hours_by_day[d].is_holiday),
             shift_id |-> <<post_id, shift_date, shift_type>>,
             hours_by_day |-> hours_by_day]
    IN Shift(CalculateHoursByDay(c, start_datetime, end_datetime))

\* generate_shifts: the list of shifts, day by day, post by post, slot by slot
GenerateShifts(c) ==
    LET slots == ShiftStartTimes(c)
        np == Len(c.posts)
        ns == Len(slots)
        all == [k \in 1..(NumDays * np * ns) |->
                  LET day == ((k - 1) \div (np * ns)) + 1
                      p == (((k - 1) \div ns) % np) + 1
                      sl == slots[((k - 1) % ns) + 1]
                  IN [post |-> p, day |-> day, start |-> sl[1], type |-> sl[2]]]
        allowed(r) == \/ (r.type = "DAY" /\ c.posts[r.post].allow_day_shift)
                      \/ (r.type = "NIGHT" /\ c.posts[r.post].allow_night_shift)
        kept == SelectSeq(all, allowed)
    IN [i \in 1..Len(kept) |->
           CreateShift(c, kept[i].post, kept[i].day, kept[i].start, kept[i].type)]

(***************************************************************************)
(* Conflict analysis (shift_generator.py).                                 *)
(***************************************************************************)
ShiftStart(s) == Midnight(s.date) + s.start_time
ShiftEnd(s) == ShiftStart(s) + s.duration_hours

\* a faulty shifts_conflict: only back-to-back shifts conflict, overlapping ones do not
ShiftsBackToBackOnly(shift1, shift2) ==
    \/ ShiftEnd(shift1) = ShiftStart(shift2)
    \/ ShiftEnd(shift2) = ShiftStart(shift1)

\* shifts_conflict
ShiftsConflict(shift1, shift2) ==
    LET start1 == ShiftStart(shift1)
        end1 == ShiftEnd(shift1)
        start2 == ShiftStart(shift2)
        end2 == ShiftEnd(shift2)
    IN IF ~(end1 <= start2 \/ end2 <= start1) THEN TRUE
       ELSE IF end1 = start2 \/ end2 = start1 THEN TRUE
       ELSE FALSE

\* a faulty scan of get_shifts_with_conflicts: the inner loop runs over the whole list
ConflictListBothOrders(shifts) ==
    LET n == Len(shifts)
        pairs == [k \in 1..(n * n) |-> <<((k - 1) \div n) + 1, ((k - 1) % n) + 1>>]
        Emitted(p) == p[1] # p[2] /\ ShiftsConflict(shifts[p[1]], shifts[p[2]])
    IN SelectSeq(pairs, Emitted)

\* the two loops of get_shifts_with_conflicts: the positions <<i, j>> of the pairs it
\* appends, in the order it appends them (i ascending, j ascending from i + 1)
ConflictList(shifts) ==
    LET n == Len(shifts)
        pairs == [k \in 1..(n * n) |-> <<((k - 1) \div n) + 1, ((k - 1) % n) + 1>>]
        Emitted(p) == p[1] < p[2] /\ ShiftsConflict(shifts[p[1]], shifts[p[2]])
    IN SelectSeq(pairs, Emitted)

\* get_shifts_with_conflicts as the optimizer reads it: the pairs (shift_id1, shift_id2)
GetShiftsWithConflicts(shifts) ==
    {<<shifts[p[1]].shift_id, shifts[p[2]].shift_id>> : p \in SeqRange(ConflictList(shifts))}

(***************************************************************************)
(* The CP-SAT model built by ShiftOptimizer.__init__ (optimizer.py).       *)
(* An optimizer o is the record of the derived data __init__ keeps; a      *)
(* solver assignment v gives a value to every variable of the model: the   *)
(* boolean variables as the set of the keys whose variable is 1, the       *)
(* integer variables as functions of the employee.                         *)
(***************************************************************************)
\* a faulty _is_valid_assignment: every employee may take every shift
AnyEmployeeAnyShift(c, emp_id, shift) == TRUE

\* _is_valid_assignment
IsValidAssignment(c, emp_id, shift) ==
    IF c.employees[emp_id].tipo = "FIJO"
    THEN shift.post_id = c.employees[emp_id].asignado_post_id
    ELSE TRUE

\* _get_sundays
GetSundays(c) == {d \in 1..NumDays : IsSundayDate(c, d)}

\* a faulty budget: the hours of one week, whatever the length of the month
HoursOfOneWeekCentihours(c) == 100 * c.hours_per_week

\* hours_to_work = (hours_per_week / 7) * days_in_month, as int(hours_to_work * 100)
HoursToWorkCentihours(c) == (100 * c.hours_per_week * NumDays) \div 7

\* len(employee_shifts) * shift_length_hours of _create_variables
MaxHoursForEmployee(c, shifts, emp_id) ==
    LET emp == c.employees[emp_id]
        employee_shifts == IF emp.tipo = "FIJO"
                           THEN {i \in 1..Len(shifts) : shifts[i].post_id = emp.asignado_post_id}
                           ELSE 1..Len(shifts)
    IN Cardinality(employee_shifts) * c.shift_length_hours

\* max(0, int((max_hours_for_employee - hours_to_work) * 100))
MaxHeCentihours(c, shifts, emp_id) ==
    LET num == 700 * MaxHoursForEmployee(c, shifts, emp_id) - 100 * c.hours_per_week * NumDays
    IN IF num <= 0 THEN 0 ELSE num \div 7

\* the per-shift coefficients of the hour aggregators (constraint 8)
ShiftNightCentihours(s) ==
    100 * SumOver(DOMAIN s.hours_by_day, [d \in DOMAIN s.hours_by_day |-> s.hours_by_day[d].night_hours])
ShiftHolidayCentihours(s) ==
    100 * SumOver(DOMAIN s.hours_by_day,
                  [d \in DOMAIN s.hours_by_day |->
                      IF s.hours_by_day[d].is_holiday THEN s.hours_by_day[d].total_hours ELSE 0])
ShiftSundayCentihours(s) ==
    100 * SumOver(DOMAIN s.hours_by_day,
                  [d \in DOMAIN s.hours_by_day |->
                      IF s.hours_by_day[d].is_sunday THEN s.hours_by_day[d].total_hours ELSE 0])

\* ShiftOptimizer.__init__: the indices and derived data, and the keys of the variables
Optimizer(c) ==
    LET ShiftOptimizer(shifts) ==
            [config |-> c,
             shifts |-> shifts,
             shift_ids |-> {shifts[i].shift_id : i \in 1..Len(shifts)},
             shifts_by_id |-> [id \in {shifts[i].shift_id : i \in 1..Len(shifts)} |->
                                 shifts[SetMax({i \in 1..Len(shifts) : shifts[i].shift_id = id})]],
             shift_conflicts |-> GetShiftsWithConflicts(shifts),
             sundays |-> GetSundays(c),
             xkeys |-> {<<e, shifts[i].shift_id>> :
                           <<e, i>> \in {k \in Employees(c) \X (1..Len(shifts)) :
                                            IsValidAssignment(c, k[1], shifts[k[2]])}},
             zkeys |-> {k \in Employees(c) \X Posts(c) : c.employees[k[1]].tipo = "COMODIN"},
             max_hours |-> [e \in Employees(c) |-> MaxHoursForEmployee(c, shifts, e)],
             max_he |-> [e \in Employees(c) |-> MaxHeCentihours(c, shifts, e)]]
    IN ShiftOptimizer(GenerateShifts(c))

\* the shift ids in the order of their first occurrence in the list
RECURSIVE IdOrder(_, _, _)
IdOrder(shifts, i, acc) ==
    IF i > Len(shifts) THEN acc
    ELSE IdOrder(shifts, i + 1,
                 IF shifts[i].shift_id \in SeqRange(acc) THEN acc
                 ELSE Append(acc, shifts[i].shift_id))

\* 1. coverage, for the shifts with the id sid: sum(assigned_employees) == required_coverage
\*    whenever some employee has a variable for the shift
CoverageConstraint(o, x, sid) ==
    LET assigned_employees == {e \in Employees(o.config) : <<e, sid>> \in o.xkeys}
        required_coverage == o.config.posts[o.shifts_by_id[sid].post_id].required_coverage
    IN assigned_employees # {} =>
          Cardinality({e \in assigned_employees : <<e, sid>> \in x}) = required_coverage

\* 3. conflicts, for the pairs of shift_conflicts among the ids in decided:
\*    x[e, id1] + x[e, id2] <= 1 for every employee valid for both shifts
ConflictConstraint(o, x, decided) ==
    \A pair \in o.shift_conflicts :
       (pair[1] \in decided /\ pair[2] \in decided) =>
          \A e \in Employees(o.config) :
             (/\ IsValidAssignment(o.config, e, o.shifts_by_id[pair[1]])
              /\ IsValidAssignment(o.config, e, o.shifts_by_id[pair[2]])
              /\ <<e, pair[1]>> \in o.xkeys
              /\ <<e, pair[2]>> \in o.xkeys)
             => (IF <<e, pair[1]>> \in x THEN 1 ELSE 0)
                 + (IF <<e, pair[2]>> \in x THEN 1 ELSE 0) <= 1

RECURSIVE ExtendX(_, _, _, _)
\* the assignments of x that satisfy constraints 1 and 3, found shift id by shift id
ExtendX(o, ids, decided, x) ==
    IF ids = <<>> THEN {x}
    ELSE LET sid == Head(ids)
             eligible == {e \in Employees(o.config) : <<e, sid>> \in o.xkeys}
             choices == {A \in SUBSET eligible :
                            LET x2 == x \cup {<<e, sid>> : e \in A}
                            IN /\ CoverageConstraint(o, x2, sid)
                               /\ ConflictConstraint(o, x2, decided \cup {sid})}
         IN UNION {ExtendX(o, Tail(ids), decided \cup {sid}, x \cup {<<e, sid>> : e \in A}) :
                      A \in choices}

\* 2. activation: x[e, s] <= active[e]
ActivationConstraint(o, x, active) ==
    \A k \in o.xkeys : k \in x => k[1] \in active

\* 5. comodin post limits: sum_p z[e, p] <= max_posts, z[e, p] >= x[e, s] for the shifts of p
\*    (z[e, p] * len(post_assignments) >= sum(post_assignments) adds nothing to it)
ComodinConstraint(o, x, z) ==
    \A e \in Employees(o.config) :
       o.config.employees[e].tipo = "COMODIN" =>
          LET emp == o.config.employees[e]
              max_posts == IF emp.max_posts_if_comodin > 0 THEN emp.max_posts_if_comodin
                           ELSE o.config.max_posts_per_comodin
          IN /\ Cardinality({p \in Posts(o.config) : <<e, p>> \in z}) <= max_posts
             /\ \A p \in Posts(o.config) :
                   LET post_assignments ==
                          {k \in o.xkeys : k[1] = e /\ o.shifts_by_id[k[2]].post_id = p}
                       n == Cardinality(post_assignments)
                       zv == IF <<e, p>> \in z THEN 1 ELSE 0
                   IN post_assignments # {} =>
                         /\ \A k \in post_assignments : k \in x => zv >= 1
                         /\ zv * n >= Cardinality(post_assignments \cap x)

\* 6. Sunday tracking: sunday_worked[e, d] >= x[e, s] for the shifts with shift.date == d
SundayConstraint(o, x, sunday_worked) ==
    \A e \in Employees(o.config) : \A sunday \in o.sundays :
       LET sunday_assignments ==
              {k \in o.xkeys : k[1] = e /\ \E i \in 1..Len(o.shifts) :
                                  o.shifts[i].shift_id = k[2] /\ o.shifts[i].date = sunday}
           n == Cardinality(sunday_assignments)
           wv == IF <<e, sunday>> \in sunday_worked THEN 1 ELSE 0
       IN sunday_assignments # {} =>
             /\ \A k \in sunday_assignments : k \in x => wv >= 1
             /\ wv * n >= Cardinality(sunday_assignments \cap x)

\* a faulty constraint 7: the indicator is 1 from the threshold itself on
ExcessFromThreshold(o, sunday_worked, excess_sundays) ==
    \A e \in Employees(o.config) :
       (e \in excess_sundays)
          <=> Cardinality({d \in o.sundays : <<e, d>> \in sunday_worked})
                 >= o.config.sunday_threshold

\* 7. excess Sundays: sum <= threshold + len(sundays) * excess, sum >= (threshold + 1) * excess
ExcessConstraint(o, sunday_worked, excess_sundays) ==
    \A e \in Employees(o.config) :
       LET total == Cardinality({d \in o.sundays : <<e, d>> \in sunday_worked})
           ex == IF e \in excess_sundays THEN 1 ELSE 0
           threshold == o.config.sunday_threshold
       IN o.sundays # {} =>
             /\ total <= threshold + Cardinality(o.sundays) * ex
             /\ total >= (threshold + 1) * ex

\* 8. the hour aggregators of employee e under x
HoursAssignedOf(o, x, e) ==
    LET mine == {k \in x : k[1] = e}
    IN SumOver(mine, [k \in mine |-> o.shifts_by_id[k[2]].duration_hours])
HoursNightOf(o, x, e) ==
    LET mine == {k \in x : k[1] = e}
    IN SumOver(mine, [k \in mine |-> ShiftNightCentihours(o.shifts_by_id[k[2]])])
HoursHolidayOf(o, x, e) ==
    LET mine == {k \in x : k[1] = e}
    IN SumOver(mine, [k \in mine |-> ShiftHolidayCentihours(o.shifts_by_id[k[2]])])
HoursSundayOf(o, x, e) ==
    LET mine == {k \in x : k[1] = e}
    IN SumOver(mine, [k \in mine |-> ShiftSundayCentihours(o.shifts_by_id[k[2]])])

\* 9. overtime: he >= 100 * hours_assigned - int(hours_to_work * 100), he >= 0,
\*    he <= big_m * has_he, he >= has_he, within the bounds of the variable
OvertimeConstraint(o, e, hours_assigned, he, has) ==
    LET big_m == IF o.max_he[e] > 0 THEN o.max_he[e] ELSE 1000
    IN /\ he >= 100 * hours_assigned - HoursToWorkCentihours(o.config)
       /\ he >= 0
       /\ he <= o.max_he[e]
       /\ he <= big_m * has
       /\ he >= has

\* the values <<he_hours[e], has_he[e]>> that constraint 9 allows under x; he_hours[e] is
\* followed up to HeSlack above its lower bound
OvertimeChoices(o, x, e) ==
    LET Choices(hours_assigned, he_low) ==
           Enumerate({p \in (he_low..(he_low + HeSlack)) \X {0, 1} :
                         OvertimeConstraint(o, e, hours_assigned, p[1], p[2])})
    IN Choices(HoursAssignedOf(o, x, e),
               Max2(0, 100 * HoursAssignedOf(o, x, e) - HoursToWorkCentihours(o.config)))

RECURSIVE OvertimeAssignments(_, _, _)
\* the assignments of he_hours and has_he to the employees es: functions e -> <<he, has>>
OvertimeAssignments(o, x, es) ==
    IF es = {} THEN {<<>>}
    ELSE LET Extend(e) ==
                {[d \in (DOMAIN f) \cup {e} |-> IF d = e THEN p ELSE f[d]] :
                    f \in OvertimeAssignments(o, x, es \ {e}), p \in OvertimeChoices(o, x, e)}
         IN Extend(SetMax(es))

\* the assignments of the variables other than x that the constraints 2 and 5 to 9 allow
\* beside x
SolutionsOfX(o, x) ==
    LET E == Employees(o.config)
        hours == [e \in E |-> HoursAssignedOf(o, x, e)]
        night == [e \in E |-> HoursNightOf(o, x, e)]
        holiday == [e \in E |-> HoursHolidayOf(o, x, e)]
        sunday == [e \in E |-> HoursSundayOf(o, x, e)]
        in_domain == \A e \in E : /\ hours[e] <= o.max_hours[e]
                                  /\ night[e] <= 100 * o.max_hours[e]
                                  /\ holiday[e] <= 100 * o.max_hours[e]
                                  /\ sunday[e] <= 100 * o.max_hours[e]
        he_pairs == {<<[e \in E |-> f[e][1]], {e \in E : f[e][2] = 1}>> :
                        f \in OvertimeAssignments(o, x, E)}
        actives == Enumerate({a \in SUBSET E : ActivationConstraint(o, x, a)})
        zs == Enumerate({z \in SUBSET o.zkeys : ComodinConstraint(o, x, z)})
        sws == Enumerate({w \in SUBSET (E \X o.sundays) : SundayConstraint(o, x, w)})
        sw_pairs == Enumerate({p \in sws \X SUBSET E : ExcessConstraint(o, p[1], p[2])})
    IN IF ~in_domain THEN {}
       ELSE {[x |-> x,
              active |-> a,
              z |-> z,
              sunday_worked |-> sw[1],
              excess_sundays |-> sw[2],
              hours_assigned |-> hours,
              hours_night |-> night,
              hours_holiday |-> holiday,
              hours_sunday |-> sunday,
              he_hours |-> hp[1],
              has_he |-> hp[2]] : a \in actives, z \in zs, sw \in sw_pairs, hp \in he_pairs}

\* _create_variables and _create_constraints: the assignments the built model allows, kept
\* as a family of sets: one set per assignment of x, holding its completions
StructuralSolutions(o) ==
    {SolutionsOfX(o, x) : x \in ExtendX(o, IdOrder(o.shifts, 1, <<>>), {}, {})}

\* a faulty constraint 4: no post is ever found short of FIJO employees
NoPostShortOfFixed(c) == {}

\* constraint 4 of _create_constraints: the posts that make the build raise ValueError
PostsShortOfFixed(c) ==
    {p \in Posts(c) :
        Cardinality({e \in Employees(c) : /\ c.employees[e].tipo = "FIJO"
                                          /\ c.employees[e].asignado_post_id = p})
           < c.min_fixed_per_post}

\* the ValueError of constraint 4: raised for the first post found short, its message
\* f"Post {post_id} has only {found} fixed employees, minimum required is {required}"
MinimumFixedError(c) ==
    LET Raised(post_id) ==
           [type |-> "ValueError",
            post_id |-> post_id,
            found |-> Cardinality({e \in Employees(c) :
                                      /\ c.employees[e].tipo = "FIJO"
                                      /\ c.employees[e].asignado_post_id = post_id}),
            required |-> c.min_fixed_per_post]
    IN Raised(SetMin(PostsShortOfFixed(c)))

(***************************************************************************)
(* Sunday roles and the objectives of the lexicographic levels.            *)
(***************************************************************************)
\* the FIJO employees of a post and the place of one of them in sorted(..., key=salary)
FixedEmployeesOf(c, post_id) ==
    {e \in Employees(c) : c.employees[e].tipo = "FIJO" /\ c.employees[e].asignado_post_id = post_id}

SalaryRank(c, emp_id) ==
    Cardinality({f \in FixedEmployeesOf(c, c.employees[emp_id].asignado_post_id) :
                    \/ c.employees[f].salario_contrato < c.employees[emp_id].salario_contrato
                    \/ /\ c.employees[f].salario_contrato = c.employees[emp_id].salario_contrato
                       /\ f < emp_id})

\* _calculate_sunday_weight over the roles of _analyze_sunday_roles
CalculateSundayWeight(c, emp_id) ==
    LET emp == c.employees[emp_id]
    IN IF emp.tipo = "COMODIN" THEN 5
       ELSE IF emp.asignado_post_id \in Posts(c) /\ SalaryRank(c, emp_id) = 0 THEN 1
       ELSE IF emp.asignado_post_id \in Posts(c) /\ SalaryRank(c, emp_id) = 1 THEN 50
       ELSE IF emp.asignado_post_id \in Posts(c) THEN 10000
       ELSE (emp.salario_contrato \div 1000) * 10

\* int(salary_per_hour * pct / 100) with salary_per_hour = salario_contrato / hours_base_month;
\* the surcharge rates rn_pct, rf_pct and he_pct of a Config are kept in hundredths (0.80 is 80)
CostPerCentihour(c, emp_id, pct) ==
    (c.employees[emp_id].salario_contrato * pct) \div (c.hours_base_month * 10000)

\* rf_hours_applied[e] of the surcharge_equity objective
RfHoursApplied(v, e) ==
    v.hours_holiday[e] + (IF e \in v.excess_sundays THEN v.hours_sunday[e] ELSE 0)

\* the value of a named objective expression under the solver assignment v; max_hours and
\* max_surcharge are the fresh variables of L2b at the least value their constraints allow
ObjectiveValue(o, name, v) ==
    LET c == o.config
        E == Employees(c)
    IN CASE name = "total_he" -> SumOver(E, v.he_hours)
         [] name = "total_has_he" -> Cardinality(v.has_he)
         [] name = "total_rf_hours" -> SumOver(E, v.hours_holiday) + SumOver(E, v.hours_sunday)
         [] name = "smart_excess_objective" ->
               SumOver(E, [e \in E |-> IF e \in v.excess_sundays
                                       THEN CalculateSundayWeight(c, e) ELSE 0])
         [] name = "total_excess_sundays" -> Cardinality(v.excess_sundays)
         [] name = "total_sunday_cost" ->
               SumOver(E, [e \in E |-> v.hours_sunday[e] * CostPerCentihour(c, e, c.rf_pct)])
         [] name = "max_hours" -> SetMax({0} \cup {v.hours_assigned[e] : e \in E})
         [] name = "max_surcharge" ->
               SetMax({0} \cup {CostPerCentihour(c, e, c.rf_pct) * RfHoursApplied(v, e)
                                 + CostPerCentihour(c, e, c.rn_pct) * v.hours_night[e]
                                 + CostPerCentihour(c, e, c.he_pct) * v.he_hours[e] : e \in E})
         [] name = "total_night_hours" -> SumOver(E, v.hours_night)

\* the bounds of the fresh variables: max_hours in 0..1000, rf_hours_applied in 0..100000,
\* max_surcharge in 0..10000000
FreshVariablesFit(o, name, v) ==
    CASE name = "max_hours" -> ObjectiveValue(o, name, v) <= 1000
      [] name = "max_surcharge" ->
            /\ \A e \in Employees(o.config) : RfHoursApplied(v, e) <= 100000
            /\ ObjectiveValue(o, name, v) <= 10000000
      [] OTHER -> TRUE

(***************************************************************************)
(* The lexicographic driver solve_lexicographic.                           *)
(***************************************************************************)
Levels == <<"L1", "L1b", "L2", "L2b", "L2c", "L3">>

Strategies == {"smart", "balanced", "cost_focused", "load_balancing", "surcharge_equity", "other"}

\* the objective handed to model.Minimize at a level
ObjectiveOf(lv, strategy) ==
    CASE lv = "L1" -> "total_he"
      [] lv = "L1b" -> "total_has_he"
      [] lv = "L2" -> "total_rf_hours"
      [] lv = "L2b" -> (CASE strategy = "smart" -> "smart_excess_objective"
                          [] strategy = "balanced" -> "total_excess_sundays"
                          [] strategy = "cost_focused" -> "total_sunday_cost"
                          [] strategy = "load_balancing" -> "max_hours"
                          [] strategy = "surcharge_equity" -> "max_surcharge"
                          [] OTHER -> "total_excess_sundays")
      [] lv = "L2c" -> "total_sunday_cost"
      [] lv = "L3" -> "total_night_hours"

\* the name the code reads after the L2b solve: the local of the branch taken, or a local no
\* branch has bound ("unbound": reading it raises UnboundLocalError)
FrozenAfterL2b(strategy) ==
    CASE strategy = "smart" -> "smart_excess_objective"
      [] strategy = "cost_focused" -> "total_sunday_cost"
      [] strategy \in {"load_balancing", "surcharge_equity"} -> "unbound"
      [] OTHER -> "total_excess_sundays"

\* the message of the failed Solution of a level
FailureMessage(lv) ==
    CASE lv = "L1" -> "Level 1 failed"
      [] lv = "L1b" -> "Level 1b failed"
      [] lv = "L2" -> "Level 2 failed"
      [] lv = "L2b" -> "Level 2b failed"
      [] lv = "L2c" -> "Level 2c failed"
      [] lv = "L3" -> "Level 3 failed"

(***************************************************************************)
(* The Solution (optimizer.py): _create_failed_solution, _extract_solution *)
(* and _calculate_employee_metrics.  Hours other than hours_assigned are   *)
(* kept in centihours (the code divides them by 100.0 on the way out).     *)
(***************************************************************************)
NoVals == [x |-> {<<0, 0>>}]
NoSolution == [solver_status |-> "none"]
NoVerification == [is_valid |-> TRUE, errors |-> {<<"none", 0>>}]
\* no exception raised; no function called on its own and nothing returned by one
NoError == [type |-> "none"]
NoCall == [function |-> "none"]
NoResult == [returned |-> FALSE]

\* _create_failed_solution
CreateFailedSolution(message) ==
    [assignments |-> <<>>,
     active_employees |-> {},
     employee_metrics |-> <<>>,
     total_metrics |-> <<>>,
     solver_status |-> message]

\* the loop of _extract_solution over employees and shifts: the last employee with
\* x[e, shift_id] = 1 keeps the entry of shift_id
ExtractAssignments(o, v) ==
    LET covered == {k[2] : k \in v.x}
    IN [sid \in covered |-> SetMax({e \in Employees(o.config) : <<e, sid>> \in v.x})]

\* a faulty count: the shifts flagged is_sunday are counted, not the dates
SundayShiftsHeld(o, v, e) ==
    {i \in 1..Len(o.shifts) : /\ <<e, o.shifts[i].shift_id>> \in v.x
                              /\ o.shifts[i].is_sunday}

\* the Sunday dates of _calculate_employee_metrics: dates of hours_by_day with is_sunday
\* and total_hours > 0 over the shifts the employee holds
SundayDatesWorked(o, v, e) ==
    {d \in UNION {DOMAIN o.shifts[i].hours_by_day : i \in 1..Len(o.shifts)} :
        \E i \in 1..Len(o.shifts) :
           /\ <<e, o.shifts[i].shift_id>> \in v.x
           /\ d \in DOMAIN o.shifts[i].hours_by_day
           /\ o.shifts[i].hours_by_day[d].is_sunday
           /\ o.shifts[i].hours_by_day[d].total_hours > 0}

\* money: a surcharge is pct * hours * salary_per_hour with salary_per_hour =
\* salario_contrato / hours_base_month.  Amounts are kept exact, as multiples of
\* 25 / hours_base_month of a currency unit: rates are in hundredths and multiples of 0.05,
\* hours in centihours, contract salaries multiples of 50000.
SurchargeValue(c, pct, centihours, salario_contrato) ==
    (pct \div 5) * centihours * (salario_contrato \div 50000)

SalaryBase(c, salario_contrato) == (salario_contrato \div 50000) * c.hours_base_month * 2000

\* _calculate_employee_metrics: the hour entries (centihour values are kept in centihours)
\* and the monetary values
CalculateEmployeeMetrics(o, v) ==
    [e \in Employees(o.config) |->
        IF e \in v.active
        THEN LET num_sundays == Cardinality(SundayDatesWorked(o, v, e))
                 rf_hours_applied == IF num_sundays > o.config.sunday_threshold
                                     THEN v.hours_holiday[e] + v.hours_sunday[e]
                                     ELSE v.hours_holiday[e]
                 salario == o.config.employees[e].salario_contrato
                 val_rn == SurchargeValue(o.config, o.config.rn_pct, v.hours_night[e], salario)
                 val_rf == SurchargeValue(o.config, o.config.rf_pct, rf_hours_applied, salario)
                 val_he == SurchargeValue(o.config, o.config.he_pct, v.he_hours[e], salario)
                 salary_base == SalaryBase(o.config, salario)
             IN [hours_assigned |-> v.hours_assigned[e],
                 hours_night |-> v.hours_night[e],
                 hours_holiday |-> v.hours_holiday[e],
                 hours_sunday |-> v.hours_sunday[e],
                 num_sundays |-> num_sundays,
                 he_hours |-> v.he_hours[e],
                 rf_hours_applied |-> rf_hours_applied,
                 val_rn |-> val_rn,
                 val_rf |-> val_rf,
                 val_he |-> val_he,
                 salary_base |-> salary_base,
                 total_employee |-> val_rn + val_rf + val_he + salary_base]
        ELSE [hours_assigned |-> 0, hours_night |-> 0, hours_holiday |-> 0,
              hours_sunday |-> 0, num_sundays |-> 0, he_hours |-> 0,
              rf_hours_applied |-> 0, val_rn |-> 0, val_rf |-> 0, val_he |-> 0,
              salary_base |-> 0, total_employee |-> 0]]

\* a faulty total: every employee of employee_metrics is summed, at work or not
CalculateTotalMetricsOverAll(o, employee_metrics) ==
    LET everyone == DOMAIN employee_metrics
        Sum(field) == SumOver(everyone, [e \in everyone |-> employee_metrics[e][field]])
    IN [total_empleados_activos |-> Cardinality(everyone),
        total_val_he |-> Sum("val_he"),
        total_val_rf |-> Sum("val_rf"),
        total_val_rn |-> Sum("val_rn"),
        total_salary_base |-> Sum("salary_base"),
        total_cost |-> Sum("val_he") + Sum("val_rf") + Sum("val_rn") + Sum("salary_base")]

\* _calculate_total_metrics: the sums over the employees with hours_assigned > 0
CalculateTotalMetrics(o, employee_metrics) ==
    LET active_employees == {e \in DOMAIN employee_metrics :
                                employee_metrics[e].hours_assigned > 0}
        Sum(field) == SumOver(active_employees,
                              [e \in active_employees |-> employee_metrics[e][field]])
    IN [total_empleados_activos |-> Cardinality(active_employees),
        total_val_he |-> Sum("val_he"),
        total_val_rf |-> Sum("val_rf"),
        total_val_rn |-> Sum("val_rn"),
        total_salary_base |-> Sum("salary_base"),
        total_cost |-> Sum("val_he") + Sum("val_rf") + Sum("val_rn") + Sum("salary_base")]

\* _extract_solution for status OPTIMAL
ExtractSolution(o, v) ==
    LET Solution(employee_metrics) ==
            [assignments |-> ExtractAssignments(o, v),
             active_employees |-> v.active,
             employee_metrics |-> employee_metrics,
             total_metrics |-> CalculateTotalMetrics(o, employee_metrics),
             solver_status |-> "OPTIMAL"]
    IN Solution(CalculateEmployeeMetrics(o, v))

(***************************************************************************)
(* The verifier (verifier.py).  An error is recorded as <<kind, subject>>. *)
(***************************************************************************)
AssignedShiftsOf(o, sol, e) ==
    {o.shifts_by_id[sid] : sid \in {s \in DOMAIN sol.assignments : sol.assignments[s] = e}}

\* _verify_coverage_constraints
VerifyCoverage(o, sol) ==
    {<<"coverage", o.shifts[i].shift_id>> : i \in
        {i \in 1..Len(o.shifts) :
            (IF o.shifts[i].shift_id \in DOMAIN sol.assignments THEN 1 ELSE 0)
               # o.config.posts[o.shifts[i].post_id].required_coverage}}

\* _verify_employee_constraints
VerifyEmployeeConstraints(o, sol) ==
    LET c == o.config
    IN {<<"fixed_post", sid>> : sid \in
           {s \in DOMAIN sol.assignments :
               /\ c.employees[sol.assignments[s]].tipo = "FIJO"
               /\ o.shifts_by_id[s].post_id # c.employees[sol.assignments[s]].asignado_post_id}}
       \cup
       {<<"availability", sid>> : sid \in
           {s \in DOMAIN sol.assignments :
               \/ o.shifts_by_id[s].date < c.employees[sol.assignments[s]].disponible_desde
               \/ o.shifts_by_id[s].date > c.employees[sol.assignments[s]].disponible_hasta}}

\* _verify_rest_constraints: neighbours in the order of their start
VerifyRest(o, sol) ==
    {<<"rest", e>> : e \in
        {e \in Employees(o.config) :
            LET mine == AssignedShiftsOf(o, sol, e)
            IN \E s1 \in mine : \E s2 \in mine :
                  /\ s1 # s2
                  /\ ShiftStart(s1) <= ShiftStart(s2)
                  /\ ~\E s3 \in mine : /\ ShiftStart(s1) < ShiftStart(s3)
                                       /\ ShiftStart(s3) < ShiftStart(s2)
                  /\ ShiftStart(s2) - ShiftEnd(s1) < o.config.min_rest_hours}}

\* _verify_no_overlaps
VerifyNoOverlaps(o, sol) ==
    {<<"overlap", e>> : e \in
        {e \in Employees(o.config) :
            LET mine == AssignedShiftsOf(o, sol, e)
            IN \E s1 \in mine : \E s2 \in mine :
                  /\ s1 # s2
                  /\ ~(ShiftEnd(s1) <= ShiftStart(s2) \/ ShiftEnd(s2) <= ShiftStart(s1))}}

\* _verify_comodin_limits
VerifyComodinLimits(o, sol) ==
    LET c == o.config
    IN {<<"comodin_posts", e>> : e \in
           {e \in sol.active_employees :
               /\ c.employees[e].tipo = "COMODIN"
               /\ Cardinality({s.post_id : s \in AssignedShiftsOf(o, sol, e)})
                     > Min2(c.employees[e].max_posts_if_comodin, c.max_posts_per_comodin)}}

\* _verify_calculation_accuracy: the three comparisons that record an error
VerifyCalculationAccuracy(o, sol) ==
    LET c == o.config
        checked == {e \in DOMAIN sol.employee_metrics : e \in sol.active_employees}
        mine(e) == AssignedShiftsOf(o, sol, e)
        calc_hours_assigned(e) == SumOver(mine(e), [s \in mine(e) |-> s.duration_hours])
        calc_hours_night(e) ==
            SumOver(mine(e), [s \in mine(e) |-> IF s.is_night THEN s.duration_hours ELSE 0])
        calc_num_sundays(e) == Cardinality({s.date : s \in {s \in mine(e) : IsSundayDate(c, s.date)}})
        far(a, b) == a - b > 1 \/ b - a > 1
    IN {<<"hours_assigned", e>> : e \in
           {e \in checked : calc_hours_assigned(e) # sol.employee_metrics[e].hours_assigned}}
       \cup
       {<<"hours_night", e>> : e \in
           {e \in checked : far(100 * calc_hours_night(e), sol.employee_metrics[e].hours_night)}}
       \cup
       {<<"num_sundays", e>> : e \in
           {e \in checked : calc_num_sundays(e) # sol.employee_metrics[e].num_sundays}}

\* verify_solution
VerifySolution(o, sol) ==
    LET errors == VerifyCoverage(o, sol) \cup VerifyEmployeeConstraints(o, sol)
                  \cup VerifyRest(o, sol) \cup VerifyNoOverlaps(o, sol)
                  \cup VerifyComodinLimits(o, sol) \cup VerifyCalculationAccuracy(o, sol)
    IN [is_valid |-> (errors = {}), errors |-> errors]

(***************************************************************************)
(* The inputs: Config values and the sunday_strategy argument.             *)
(***************************************************************************)
Post(coverage) ==
    [required_coverage |-> coverage, allow_day_shift |-> TRUE, allow_night_shift |-> TRUE]

Fijo(post_id, salary) ==
    [tipo |-> "FIJO", asignado_post_id |-> post_id, salario_contrato |-> salary,
     disponible_desde |-> 1, disponible_hasta |-> NumDays, max_posts_if_comodin |-> 1]

Comodin(salary, max_posts) ==
    [tipo |-> "COMODIN", asignado_post_id |-> 0, salario_contrato |-> salary,
     disponible_desde |-> 1, disponible_hasta |-> NumDays, max_posts_if_comodin |-> max_posts]

\* a post that has no night shifts
DayPost(coverage) ==
    [required_coverage |-> coverage, allow_day_shift |-> TRUE, allow_night_shift |-> FALSE]

\* posts, employees and the global cap on the posts of a COMODIN
Rosters ==
    { \* one post, three FIJO of distinct salaries
      [posts |-> <<Post(1)>>,
       employees |-> <<Fijo(1, 1400000), Fijo(1, 1500000), Fijo(1, 1600000)>>,
       max_posts_per_comodin |-> 4],
      \* one post, two FIJO and a COMODIN who is not available on day 1
      [posts |-> <<Post(1)>>,
       employees |-> <<Fijo(1, 1500000), Fijo(1, 1400000),
                       [Comodin(1450000, 4) EXCEPT !.disponible_desde = 2]>>,
       max_posts_per_comodin |-> 4],
      \* two posts, the second without any employee who may serve it
      [posts |-> <<Post(1), Post(1)>>,
       employees |-> <<Fijo(1, 1400000), Fijo(1, 1500000)>>,
       max_posts_per_comodin |-> 4],
      \* two posts of one FIJO each, two COMODIN whose own caps exceed the global cap
      [posts |-> <<Post(1), Post(1)>>,
       employees |-> <<Fijo(1, 1400000), Fijo(2, 1500000), Comodin(1450000, 4),
                       Comodin(1450000, 2)>>,
       max_posts_per_comodin |-> 1],
      \* one post that needs two employees per shift; the COMODIN has no cap of its own
      [posts |-> <<Post(2)>>,
       employees |-> <<Fijo(1, 1400000), Fijo(1, 1400000), Fijo(1, 1500000), Comodin(1450000, 0)>>,
       max_posts_per_comodin |-> 4],
      \* one post, a single FIJO: consecutive shifts cannot be covered
      [posts |-> <<Post(1)>>,
       employees |-> <<Fijo(1, 1400000)>>,
       max_posts_per_comodin |-> 4],
      \* one post with day shifts only, two FIJO and a COMODIN: more hands than shifts
      [posts |-> <<DayPost(1)>>,
       employees |-> <<Fijo(1, 1500000), Fijo(1, 1400000), Comodin(1450000, 1)>>,
       max_posts_per_comodin |-> 4] }

\* the weekday of day 1 (Saturday or Sunday: the month has a Sunday) and the holidays (in
\* the second calendar the Sunday and the Monday after it)
Calendars == {[first_weekday |-> 5, holidays |-> {}],
              [first_weekday |-> 6, holidays |-> {1, 2}]}

SundayThresholds == {0, 2}

MinFixedPerPost == {0, 2}

ConfigSpace ==
    {[first_weekday |-> cal.first_weekday,
      holidays |-> cal.holidays,
      day_start |-> 6,
      night_start |-> 21,
      shift_length_hours |-> 12,
      shift_start_time |-> 6,
      hours_per_week |-> 44,
      hours_base_month |-> 220,
      rn_pct |-> 35,
      rf_pct |-> 80,
      he_pct |-> 125,
      sunday_threshold |-> th,
      min_fixed_per_post |-> mf,
      max_posts_per_comodin |-> r.max_posts_per_comodin,
      min_rest_hours |-> 12,
      posts |-> r.posts,
      employees |-> r.employees] :
        r \in Rosters, cal \in Calendars, th \in SundayThresholds, mf \in MinFixedPerPost}

\* ShiftOptimizer(config, shifts) with shifts = generate_shifts(config), for every input:
\* the optimizer and the assignments its model allows
Built ==
    {[config |-> o.config, optimizer |-> o, model |-> StructuralSolutions(o)] :
        o \in {Optimizer(c) : c \in ConfigSpace}}

BuiltFor(c) == CHOOSE b \in Built : b.config = c

(***************************************************************************)
(* The run: build, the six levels, extraction, verification.               *)
(***************************************************************************)
Opt == BuiltFor(cfg).optimizer
Model == BuiltFor(cfg).model

\* the objective of the current level
CurrentObjective == ObjectiveOf(Levels[level], sunday_strategy)

\* a faulty model: the constraints added after the earlier levels are not in it
FeasibleUnfrozen(o, model) ==
    {{v \in block : FreshVariablesFit(o, CurrentObjective, v)} : block \in model} \ {{}}

\* the assignments the model allows now: the built model, the constraints added after the
\* levels solved so far and the fresh variables of the current objective
Feasible(o, model) ==
    {{v \in block :
         /\ \A i \in 1..Len(added) : ObjectiveValue(o, added[i][1], v) <= added[i][2]
         /\ FreshVariablesFit(o, CurrentObjective, v)} : block \in model} \ {{}}

\* solver.Solve with status OPTIMAL: the assignments of least objective
Optimal(o, feasible) ==
    LET Values(block) == {ObjectiveValue(o, CurrentObjective, v) : v \in block}
        AtOptimum(best) ==
            {{v \in block : ObjectiveValue(o, CurrentObjective, v) = best} :
                block \in feasible} \ {{}}
    IN IF feasible = {} THEN {}
       ELSE AtOptimum(SetMin(UNION {Values(block) : block \in feasible}))

Init ==
    /\ cfg \in ConfigSpace
    /\ sunday_strategy \in Strategies
    /\ pc = "init"
    /\ level = 1
    /\ added = <<>>
    /\ vals = NoVals
    /\ solution = NoSolution
    /\ solved = <<>>
    /\ verification = NoVerification
    /\ error = NoError
    /\ call = NoCall
    /\ result = NoResult

\* ShiftOptimizer.__init__ raises ValueError: a post has too few FIJO employees
BuildRaises ==
    /\ pc = "init"
    /\ PostsShortOfFixed(cfg) # {}
    /\ error' = MinimumFixedError(cfg)
    /\ pc' = "build_error"
    /\ UNCHANGED <<cfg, sunday_strategy, level, added, vals, solution, solved, verification,
                 call, result>>

\* ShiftOptimizer.__init__ returns; solve_lexicographic sets the objective of L1
BuildOk ==
    /\ pc = "init"
    /\ PostsShortOfFixed(cfg) = {}
    /\ pc' = "solve"
    /\ UNCHANGED <<cfg, sunday_strategy, level, added, vals, solution, solved, verification,
                 error, call, result>>

\* building the surcharge_equity objective multiplies a linear expression by the variable
\* excess_sundays[e]; a solver library that refuses the product raises TypeError there,
\* before the L2b solve
ObjectiveRaises ==
    /\ pc = "solve"
    /\ Levels[level] = "L2b"
    /\ sunday_strategy = "surcharge_equity"
    /\ error' = [type |-> "TypeError"]
    /\ pc' = "crashed"
    /\ UNCHANGED <<cfg, sunday_strategy, level, added, vals, solution, solved, verification,
                 call, result>>

\* solver.Solve returns OPTIMAL
SolveOk ==
    /\ pc = "solve"
    /\ \E block \in Optimal(Opt, Feasible(Opt, Model)) : \E v \in block : vals' = v
    /\ solved' = Append(solved, Levels[level])
    /\ pc' = "solved"
    /\ UNCHANGED <<cfg, sunday_strategy, level, added, solution, verification,
                 error, call, result>>

\* a faulty driver: the failed level is not returned from, the next level is tried
SolveFailsFallsThrough ==
    /\ pc = "solve"
    /\ Feasible(Opt, Model) = {}
    /\ level < Len(Levels)
    /\ solved' = Append(solved, Levels[level])
    /\ level' = level + 1
    /\ UNCHANGED <<cfg, sunday_strategy, pc, added, vals, solution, verification,
                 error, call, result>>

\* solver.Solve returns INFEASIBLE: return self._create_failed_solution("Level k failed")
SolveFails ==
    /\ pc = "solve"
    /\ Feasible(Opt, Model) = {}
    /\ solved' = Append(solved, Levels[level])
    /\ solution' = CreateFailedSolution(FailureMessage(Levels[level]))
    /\ pc' = "failed"
    /\ UNCHANGED <<cfg, sunday_strategy, level, added, vals, verification,
                 error, call, result>>

\* the name whose value is read and bounded after the solve of the current level
FrozenName ==
    IF Levels[level] = "L2b" THEN FrozenAfterL2b(sunday_strategy) ELSE CurrentObjective

\* a faulty driver: the next level is set up without model.Add(objective <= optimal)
FreezeWithoutBound ==
    /\ pc = "solved"
    /\ level < Len(Levels)
    /\ level' = level + 1
    /\ vals' = NoVals
    /\ pc' = "solve"
    /\ UNCHANGED <<cfg, sunday_strategy, added, solution, solved, verification,
                 error, call, result>>

\* optimal = solver.Value(objective); model.Add(objective <= optimal); next level.
\* Nothing reads the solver's assignment between this Add and the next Solve, which
\* replaces it: vals is NoVals in between.
Freeze ==
    /\ pc = "solved"
    /\ level < Len(Levels)
    /\ FrozenName # "unbound"
    /\ added' = Append(added, <<FrozenName, ObjectiveValue(Opt, FrozenName, vals)>>)
    /\ level' = level + 1
    /\ vals' = NoVals
    /\ pc' = "solve"
    /\ UNCHANGED <<cfg, sunday_strategy, solution, solved, verification,
                 error, call, result>>

\* after the L2b solve of load_balancing and surcharge_equity the else branch reads
\* total_excess_sundays, which no branch taken has bound: UnboundLocalError
FreezeRaises ==
    /\ pc = "solved"
    /\ Levels[level] = "L2b"
    /\ FrozenName = "unbound"
    /\ error' = [type |-> "UnboundLocalError", name |-> "total_excess_sundays"]
    /\ pc' = "crashed"
    /\ UNCHANGED <<cfg, sunday_strategy, level, added, vals, solution, solved, verification,
                 call, result>>

\* return self._extract_solution(status) after L3
Extract ==
    /\ pc = "solved"
    /\ level = Len(Levels)
    /\ solution' = ExtractSolution(Opt, vals)
    /\ pc' = "done"
    /\ UNCHANGED <<cfg, sunday_strategy, level, added, vals, solved, verification,
                 error, call, result>>

\* verify_solution(solution, config, shifts) on a returned solution
Verify ==
    /\ pc = "done"
    /\ verification' = VerifySolution(Opt, solution)
    /\ pc' = "verified"
    /\ UNCHANGED <<cfg, sunday_strategy, level, added, vals, solution, solved,
                 error, call, result>>

Next ==
    \/ BuildRaises
    \/ BuildOk
    \/ ObjectiveRaises
    \/ SolveOk
    \/ SolveFails
    \/ Freeze
    \/ FreezeRaises
    \/ Extract
    \/ Verify

Spec == Init /\ [][Next]_vars

(***************************************************************************)
(* The functions of shift_generator.py called on their own: the inputs are *)
(* drawn by PureInit, one action per function returns its value.           *)
(***************************************************************************)
\* calendars of the month: the weekday of day 1 and the holidays
GenCalendars ==
    {[first_weekday |-> w, holidays |-> h] : w \in {4, 5, 6}, h \in {{}, {1}, {2}}}

\* the Configs handed to generate_shifts (the fields it reads)
GenConfigs ==
    {[first_weekday |-> cal.first_weekday,
      holidays |-> cal.holidays,
      day_start |-> 6,
      night_start |-> 21,
      shift_length_hours |-> len,
      shift_start_time |-> st,
      posts |-> ps] :
        cal \in GenCalendars, len \in {8, 12}, st \in {0, 6, 7, 14},
        ps \in {<<Post(1)>>, <<Post(1), DayPost(1)>>}}

\* the arguments of calculate_hours_by_day: the boundaries of the night window, the
\* calendar, and the interval [shift_start, shift_end)
HoursCalls ==
    {[function |-> "calculate_hours_by_day",
      config |-> [first_weekday |-> cal.first_weekday, holidays |-> cal.holidays,
                  day_start |-> ds, night_start |-> ns],
      shift_start |-> Midnight(d) + h,
      shift_end |-> Midnight(d) + h + len] :
        cal \in {[first_weekday |-> 5, holidays |-> {}], [first_weekday |-> 6, holidays |-> {2}]},
        ds \in {0, 6, 22}, ns \in {6, 18, 21},
        d \in 1..NumDays, h \in {0, 5, 6, 18, 20, 23}, len \in {1, 8, 12, 24, 30}}

GenerateCalls == {[function |-> "generate_shifts", config |-> c] : c \in GenConfigs}

\* the lists handed to get_shifts_with_conflicts: generated lists, and generated lists of
\* two rotations one after the other (shifts that overlap in part)
ConflictCalls ==
    {[function |-> "get_shifts_with_conflicts", shifts |-> GenerateShifts(c)] :
        c \in GenConfigs}
    \cup
    {[function |-> "get_shifts_with_conflicts",
      shifts |-> GenerateShifts(p[2]) \o GenerateShifts(p[1])] :
        p \in {q \in GenConfigs \X GenConfigs :
                  /\ q[1].first_weekday = 5 /\ q[2].first_weekday = 5
                  /\ q[1].holidays = {} /\ q[2].holidays = {}
                  /\ Len(q[1].posts) = 1
                  /\ q[1].shift_length_hours = 12
                  /\ q[1].shift_start_time = 6 /\ q[2].shift_start_time = 7}}

NoConfig == [posts |-> <<>>, employees |-> <<>>]

PureInit ==
    /\ call \in HoursCalls \cup GenerateCalls \cup ConflictCalls
    /\ result = NoResult
    /\ error = NoError
    /\ cfg = NoConfig
    /\ sunday_strategy = "smart"
    /\ pc = "idle"
    /\ level = 1
    /\ added = <<>>
    /\ vals = NoVals
    /\ solution = NoSolution
    /\ solved = <<>>
    /\ verification = NoVerification

\* calculate_hours_by_day(shift_start, shift_end, day_start, night_start, holiday_dates)
CallCalculateHoursByDay ==
    /\ call.function = "calculate_hours_by_day"
    /\ ~result.returned
    /\ result' = [returned |-> TRUE,
                  value |-> CalculateHoursByDay(call.config, call.shift_start, call.shift_end)]
    /\ UNCHANGED <<cfg, sunday_strategy, pc, level, added, vals, solution, solved,
                   verification, error, call>>

\* generate_shifts(config)
CallGenerateShifts ==
    /\ call.function = "generate_shifts"
    /\ ~result.returned
    /\ result' = [returned |-> TRUE, value |-> GenerateShifts(call.config)]
    /\ UNCHANGED <<cfg, sunday_strategy, pc, level, added, vals, solution, solved,
                   verification, error, call>>

\* get_shifts_with_conflicts(shifts): the list of id pairs, and the positions of the
\* shifts each pair was appended for
CallGetShiftsWithConflicts ==
    /\ call.function = "get_shifts_with_conflicts"
    /\ ~result.returned
    /\ result' = [returned |-> TRUE,
                  value |-> [k \in 1..Len(ConflictList(call.shifts)) |->
                               <<call.shifts[ConflictList(call.shifts)[k][1]].shift_id,
                                 call.shifts[ConflictList(call.shifts)[k][2]].shift_id>>],
                  positions |-> ConflictList(call.shifts)]
    /\ UNCHANGED <<cfg, sunday_strategy, pc, level, added, vals, solution, solved,
                   verification, error, call>>

PureNext ==
    \/ CallCalculateHoursByDay
    \/ CallGenerateShifts
    \/ CallGetShiftsWithConflicts

PureSpec == PureInit /\ [][PureNext]_vars

(***************************************************************************)
(* The claims.  A solution is returned once pc is "done"; vals is then the *)
(* solver's assignment the Solution was extracted from.                    *)
(***************************************************************************)
Returned == pc \in {"done", "verified"}

\* the shifts employee e holds under the solver's assignment, as positions in the shift list
HeldByX(e) == {i \in 1..Len(Opt.shifts) : <<e, Opt.shifts[i].shift_id>> \in vals.x}

\* the shifts employee e holds in Solution.assignments, as positions in the shift list
HeldInSolution(e) ==
    {i \in 1..Len(Opt.shifts) :
        /\ Opt.shifts[i].shift_id \in DOMAIN solution.assignments
        /\ solution.assignments[Opt.shifts[i].shift_id] = e}

\* C1: a returned Solution has exactly one entry of assignments for every generated shift
\* (as many entries as shifts), and every value is an employee of the Config.
AssignmentsCoverEveryShift ==
    Returned =>
       /\ \A i \in 1..Len(Opt.shifts) : Opt.shifts[i].shift_id \in DOMAIN solution.assignments
       /\ Cardinality(DOMAIN solution.assignments) = Len(Opt.shifts)
       /\ \A sid \in DOMAIN solution.assignments : solution.assignments[sid] \in Employees(cfg)

\* C2: in every solution of the solver, every generated shift has exactly required_coverage
\* employees with x = 1, whatever required_coverage is and however many are eligible.
CoverageMet ==
    pc = "solved" =>
       \A i \in 1..Len(Opt.shifts) :
          Cardinality({e \in Employees(cfg) : <<e, Opt.shifts[i].shift_id>> \in vals.x})
             = cfg.posts[Opt.shifts[i].post_id].required_coverage

\* two shifts whose intervals [start, end) overlap or abut
Touch(s1, s2) == ShiftStart(s1) <= ShiftEnd(s2) /\ ShiftStart(s2) <= ShiftEnd(s1)

\* C3: in every returned solution no employee holds two shifts that overlap or abut,
\* whatever the posts of the two shifts.
NoOverlapOrAbut ==
    Returned =>
       \A e \in Employees(cfg) :
          /\ \A i \in HeldByX(e) : \A j \in HeldByX(e) :
                i # j => ~Touch(Opt.shifts[i], Opt.shifts[j])
          /\ \A i \in HeldInSolution(e) : \A j \in HeldInSolution(e) :
                i # j => ~Touch(Opt.shifts[i], Opt.shifts[j])

\* a returned solution in which a COMODIN holds shifts of two posts, on different days
TwoShiftsHeld ==
    /\ Returned
    /\ \E e \in Employees(cfg) : \E i \in HeldInSolution(e) : \E j \in HeldInSolution(e) :
          /\ cfg.employees[e].tipo = "COMODIN"
          /\ Opt.shifts[i].post_id # Opt.shifts[j].post_id

\* C4: in every returned solution the shifts of a FIJO employee belong to the employee's
\* post; a COMODIN may hold shifts of any post.
FixedStayOnTheirPost ==
    Returned =>
       \A e \in Employees(cfg) :
          cfg.employees[e].tipo = "FIJO" =>
             \A i \in HeldByX(e) \cup HeldInSolution(e) :
                Opt.shifts[i].post_id = cfg.employees[e].asignado_post_id

\* a returned solution with a FIJO at work on a roster of two posts, and a COMODIN at work
FixedAndComodinAtWork ==
    /\ Returned
    /\ Len(cfg.posts) = 2
    /\ \E e \in Employees(cfg) : cfg.employees[e].tipo = "FIJO" /\ HeldInSolution(e) # {}
    /\ \E e \in Employees(cfg) : cfg.employees[e].tipo = "COMODIN" /\ HeldInSolution(e) # {}

\* C5: verify_solution accepts every returned Solution: is_valid is true.
VerifierAccepts == pc = "verified" => verification.is_valid

\* C6: for every Sunday policy, after a successful L2b solve the driver adds the bound
\* 'L2b objective <= its optimum' and goes on to the L2c solve.
L2bAdvancesToL2c ==
    [][(pc = "solved" /\ Levels[level] = "L2b") =>
          /\ pc' = "solve"
          /\ Levels[level'] = "L2c"
          /\ added' = Append(added, <<CurrentObjective,
                                      ObjectiveValue(Opt, CurrentObjective, vals)>>)]_vars

\* C7: the levels are solved in the order L1, L1b, L2, L2b, L2c, L3, each at most once; a
\* level is solved only after every earlier one succeeded and had its optimum added as a
\* constraint; a Solution with assignments exists only after L3 succeeded.
LevelsInOrder ==
    /\ Len(solved) <= Len(Levels)
    /\ \A i \in 1..Len(solved) : solved[i] = Levels[i]
    /\ pc = "solve" => Len(solved) = level - 1
    /\ pc \in {"solved", "failed", "done", "verified"} => Len(solved) = level
    /\ Len(solved) > 0 => Len(added) >= Len(solved) - 1
    /\ \A i \in 1..Len(added) : added[i][1] = ObjectiveOf(Levels[i], sunday_strategy)
    /\ (solution # NoSolution /\ solution.assignments # <<>>) =>
          /\ Returned
          /\ solved = Levels
          /\ Len(added) = Len(Levels) - 1

\* the run went through the six levels and returned a Solution with assignments
AllLevelsSolved ==
    /\ pc = "done"
    /\ solved = Levels
    /\ solution.assignments # <<>>

\* C8: lexicographic monotonicity: after the solve of a level, and in the returned
\* solution, every earlier objective has the optimum recorded when its level was solved.
EarlierOptimaKept ==
    pc \in {"solved", "done", "verified"} =>
       \A i \in 1..Len(added) : ObjectiveValue(Opt, added[i][1], vals) = added[i][2]

\* a returned solution whose recorded optima include overtime that could not be avoided
OptimaRecorded ==
    /\ pc = "done"
    /\ Len(added) = Len(Levels) - 1
    /\ added[1][2] > 0
    /\ \E e \in Employees(cfg) : vals.he_hours[e] = 0

\* C9: the solver reports a satisfying status only with an assignment the model allows; a
\* level it finds infeasible ends the run at once with a failed Solution that names the
\* level and has no assignments, active employees or metrics; nothing is solved after it;
\* a model whose own constraints cannot be met fails as Level 1.
FailedLevelEndsRun ==
    /\ [][(pc = "solve" /\ pc' = "solved") =>
             /\ \E block \in Model : vals' \in block
             /\ \A i \in 1..Len(added) : ObjectiveValue(Opt, added[i][1], vals') <= added[i][2]
             /\ FreshVariablesFit(Opt, CurrentObjective, vals')]_vars
    /\ [][(pc = "solve" /\ pc' \notin {"solved", "crashed"}) =>
             /\ Feasible(Opt, Model) = {}
             /\ pc' = "failed"
             /\ level' = level
             /\ solved' = Append(solved, Levels[level])
             /\ solution' = [assignments |-> <<>>,
                             active_employees |-> {},
                             employee_metrics |-> <<>>,
                             total_metrics |-> <<>>,
                             solver_status |-> FailureMessage(Levels[level])]]_vars
    /\ [][pc = "failed" => UNCHANGED vars]_vars
    /\ []((pc = "failed" /\ Model = {}) => solution.solver_status = "Level 1 failed")

\* a run that failed at Level 1 on a model no assignment satisfies
FailedAtLevel1 ==
    /\ pc = "failed"
    /\ Model = {}
    /\ solution.solver_status = "Level 1 failed"
    /\ solved = <<"L1">>

\* C10: active_employees holds an employee exactly when that employee has an entry of
\* Solution.assignments.
ActiveIffAssigned ==
    Returned =>
       \A e \in Employees(cfg) :
          e \in solution.active_employees <=> HeldInSolution(e) # {}

\* C11: in every returned solution each post has at least min_fixed_per_post FIJO
\* employees of that post among Solution.active_employees.
MinimumFixedActive ==
    Returned =>
       \A p \in Posts(cfg) :
          Cardinality({e \in solution.active_employees :
                          /\ cfg.employees[e].tipo = "FIJO"
                          /\ cfg.employees[e].asignado_post_id = p})
             >= cfg.min_fixed_per_post

\* the number of FIJO employees the Config lists for post p
FixedListedFor(p) ==
    Cardinality({e \in Employees(cfg) : /\ cfg.employees[e].tipo = "FIJO"
                                        /\ cfg.employees[e].asignado_post_id = p})

\* C12: when some post has fewer than min_fixed_per_post FIJO employees in the Config, the
\* build of the model raises an error that names such a post, the number found and the
\* minimum required; it is raised before any solve, the run ends there and no Solution is
\* produced.  The build raises for no other Config.
BuildFailsOnShortPost ==
    /\ (pc \notin {"init", "idle"} /\ \E p \in Posts(cfg) : FixedListedFor(p) < cfg.min_fixed_per_post)
          => pc = "build_error"
    /\ pc = "build_error" =>
          /\ \E p \in Posts(cfg) :
                /\ FixedListedFor(p) < cfg.min_fixed_per_post
                /\ error = [type |-> "ValueError",
                            post_id |-> p,
                            found |-> FixedListedFor(p),
                            required |-> cfg.min_fixed_per_post]
          /\ solved = <<>>
          /\ added = <<>>
          /\ vals = NoVals
          /\ solution = NoSolution
          /\ ~ENABLED Next

\* the build raised for a post that has some FIJO employees, but too few
BuildRaisedForShortPost ==
    /\ pc = "build_error"
    /\ error.type = "ValueError"
    /\ error.found > 0
    /\ error.found < error.required

\* C13: in every returned solution a COMODIN serves shifts of at most k distinct posts,
\* k the smaller of the global max_posts_per_comodin and the employee's own
\* max_posts_if_comodin; with a cap of 1 all the shifts belong to one post.
ComodinWithinSmallerCap ==
    Returned =>
       \A e \in Employees(cfg) :
          cfg.employees[e].tipo = "COMODIN" =>
             Cardinality({Opt.shifts[i].post_id : i \in HeldByX(e) \cup HeldInSolution(e)})
                <= Min2(cfg.max_posts_per_comodin, cfg.employees[e].max_posts_if_comodin)

\* calculate_hours_by_day has returned its dict
HoursReturned == call.function = "calculate_hours_by_day" /\ result.returned

\* C14: for an interval and day_start <= night_start, every entry calculate_hours_by_day
\* returns has day_hours + night_hours = total_hours and total_hours > 0, and the
\* total_hours of the entries add up to the length of the interval.
HoursAddUp ==
    (HoursReturned /\ call.config.day_start <= call.config.night_start) =>
       /\ \A d \in DOMAIN result.value :
             /\ result.value[d].day_hours + result.value[d].night_hours
                   = result.value[d].total_hours
             /\ result.value[d].total_hours > 0
       /\ SumOver(DOMAIN result.value, [d \in DOMAIN result.value |-> result.value[d].total_hours])
             = call.shift_end - call.shift_start

\* the dict of an interval that runs over midnight, with hours of day and of night
HoursOfTwoDates ==
    /\ HoursReturned
    /\ call.config.day_start <= call.config.night_start
    /\ Cardinality(DOMAIN result.value) = 2
    /\ \E d \in DOMAIN result.value :
          result.value[d].day_hours > 0 /\ result.value[d].night_hours > 0

\* the hours of the interval of the call that fall on date d, and those of them whose time
\* of day lies in [from, to)
HoursOnDate(d) ==
    {t \in call.shift_start..(call.shift_end - 1) : 24 * (d - 1) <= t /\ t < 24 * d}

HoursOnDateWithin(d, from, to) ==
    Cardinality({t \in HoursOnDate(d) : from <= t - 24 * (d - 1) /\ t - 24 * (d - 1) < to})

\* C15: the entry of date d covers exactly the part of [start, end) between the midnights of
\* d and d + 1 (dates without such a part have no entry); its night_hours are the overlap
\* with [00:00, day_start) plus the overlap with [night_start, 24:00), its day_hours the
\* overlap with [day_start, night_start).  A 12-hour shift from Sunday 18:00 with
\* day_start 06:00, night_start 21:00: Sunday 6 / 3 / 3, Monday 6 / 0 / 6.
HoursByWindow ==
    HoursReturned =>
       /\ DOMAIN result.value = {d \in 1..(NumDays + 2) : HoursOnDate(d) # {}}
       /\ \A d \in DOMAIN result.value :
             /\ result.value[d].date = d
             /\ result.value[d].total_hours = Cardinality(HoursOnDate(d))
             /\ result.value[d].day_hours
                   = HoursOnDateWithin(d, call.config.day_start, call.config.night_start)
             /\ result.value[d].night_hours
                   = HoursOnDateWithin(d, 0, call.config.day_start)
                     + HoursOnDateWithin(d, call.config.night_start, 24)
             /\ result.value[d].is_sunday = ((call.config.first_weekday + d - 1) % 7 = 6)
       /\ (/\ call.config.first_weekday = 6
           /\ call.config.day_start = 6 /\ call.config.night_start = 21
           /\ call.shift_start = 18 /\ call.shift_end = 30)
          => /\ DOMAIN result.value = {1, 2}
             /\ result.value[1].total_hours = 6 /\ result.value[1].day_hours = 3
             /\ result.value[1].night_hours = 3 /\ result.value[1].is_sunday
             /\ result.value[2].total_hours = 6 /\ result.value[2].day_hours = 0
             /\ result.value[2].night_hours = 6 /\ ~result.value[2].is_sunday

\* the dict of the 12-hour shift that starts on Sunday at 18:00
SundayEveningShiftSplit ==
    /\ HoursReturned
    /\ call.config.first_weekday = 6
    /\ call.config.day_start = 6 /\ call.config.night_start = 21
    /\ call.shift_start = 18 /\ call.shift_end = 30

\* generate_shifts has returned its list
ShiftsReturned == call.function = "generate_shifts" /\ result.returned

\* the positions in the returned list of the shifts of post p
ShiftsOfPost(p) == {i \in 1..Len(result.value) : result.value[i].post_id = p}

\* C16: with the 12-hour rotation starting at 06:00, for every post with day and night
\* shifts, the shifts flagged is_sunday number twice the Sundays of the month and the
\* shifts flagged is_holiday number twice the holidays of the month.
TwoFlaggedShiftsPerDate ==
    (/\ ShiftsReturned
     /\ call.config.shift_length_hours = 12
     /\ call.config.shift_start_time = 6) =>
       \A p \in 1..Len(call.config.posts) :
          (call.config.posts[p].allow_day_shift /\ call.config.posts[p].allow_night_shift) =>
             /\ Cardinality({i \in ShiftsOfPost(p) : result.value[i].is_sunday})
                   = 2 * Cardinality({d \in 1..NumDays : (call.config.first_weekday + d - 1) % 7 = 6})
             /\ Cardinality({i \in ShiftsOfPost(p) : result.value[i].is_holiday})
                   = 2 * Cardinality(call.config.holidays \cap (1..NumDays))

\* the dates shift s touches: those of the hours of [start, end)
TouchedDates(s) ==
    {(t \div 24) + 1 : t \in (24 * (s.date - 1) + s.start_time)..
                              (24 * (s.date - 1) + s.start_time + s.duration_hours - 1)}

ConflictsReturned == call.function = "get_shifts_with_conflicts" /\ result.returned

\* C18: get_shifts_with_conflicts emits the pair of two shifts of the list exactly when
\* their intervals overlap or abut, whatever their posts; no unordered pair is emitted
\* twice; shifts_conflict gives the same answer for the two orders of a pair.
ConflictPairsExact ==
    ConflictsReturned =>
       /\ \A i \in 1..Len(call.shifts) : \A j \in 1..Len(call.shifts) :
             /\ i < j =>
                   ((\E k \in 1..Len(result.positions) :
                        result.positions[k] \in {<<i, j>>, <<j, i>>})
                    <=> Touch(call.shifts[i], call.shifts[j]))
             /\ ShiftsConflict(call.shifts[i], call.shifts[j])
                   = ShiftsConflict(call.shifts[j], call.shifts[i])
       /\ \A k \in 1..Len(result.positions) :
             /\ result.positions[k][1] # result.positions[k][2]
             /\ \A l \in 1..Len(result.positions) :
                   k # l => {result.positions[k][1], result.positions[k][2]}
                               # {result.positions[l][1], result.positions[l][2]}
       /\ Len(result.value) = Len(result.positions)
       /\ \A k \in 1..Len(result.value) :
             result.value[k] = <<call.shifts[result.positions[k][1]].shift_id,
                                 call.shifts[result.positions[k][2]].shift_id>>

\* a returned list with a pair of shifts of two posts, a pair that abuts, a pair that
\* overlaps in part, and two shifts that are not a pair
ConflictsOfEveryKind ==
    /\ ConflictsReturned
    /\ \E k \in 1..Len(result.positions) :
          call.shifts[result.positions[k][1]].post_id
             # call.shifts[result.positions[k][2]].post_id
    /\ \E k \in 1..Len(result.positions) :
          ShiftEnd(call.shifts[result.positions[k][1]])
             = ShiftStart(call.shifts[result.positions[k][2]])
    /\ \E k \in 1..Len(result.positions) :
          /\ ShiftStart(call.shifts[result.positions[k][1]])
                < ShiftStart(call.shifts[result.positions[k][2]])
          /\ ShiftStart(call.shifts[result.positions[k][2]])
                < ShiftEnd(call.shifts[result.positions[k][1]])
          /\ ShiftEnd(call.shifts[result.positions[k][1]])
                < ShiftEnd(call.shifts[result.positions[k][2]])
    /\ \E i \in 1..Len(call.shifts) : \E j \in 1..Len(call.shifts) :
          i < j /\ ~Touch(call.shifts[i], call.shifts[j])

\* C19: in every solution of the solver sunday_worked[e, d] is 1 exactly when employee e
\* holds a shift whose hours_by_day has the Sunday d, the shifts that start on the
\* Saturday and end on the Sunday included.
SundayWorkedIffTouched ==
    pc = "solved" =>
       \A e \in Employees(cfg) : \A d \in Opt.sundays :
          <<e, d>> \in vals.sunday_worked
             <=> \E i \in HeldByX(e) : d \in DOMAIN Opt.shifts[i].hours_by_day

\* the Sundays the solver's assignment marks as worked by employee e
SundaysMarked(e) == {d \in Opt.sundays : <<e, d>> \in vals.sunday_worked}

\* C20: in every solution of the solver excess_sundays[e] is 1 exactly when the number of
\* Sundays with sunday_worked[e, d] = 1 is strictly greater than sunday_threshold, also
\* when the threshold is at least the number of Sundays.
ExcessIffAboveThreshold ==
    pc = "solved" =>
       \A e \in Employees(cfg) :
          e \in vals.excess_sundays
             <=> Cardinality(SundaysMarked(e)) > cfg.sunday_threshold

\* a solution in which one employee is in excess and another marked no Sunday
ExcessAndNoExcess ==
    /\ pc = "solved"
    /\ \E e \in Employees(cfg) : e \in vals.excess_sundays
    /\ \E e \in Employees(cfg) : e \notin vals.excess_sundays /\ SundaysMarked(e) = {}

\* the Sunday dates on which employee e works an hour under the solver's assignment
SundaysTouchedBy(e) ==
    {d \in 1..(NumDays + 1) :
        /\ IsSundayDate(cfg, d)
        /\ \E i \in HeldByX(e) : d \in TouchedDates(Opt.shifts[i])}

DayHoursSum(s, field, flag) ==
    SumOver(DOMAIN s.hours_by_day,
            [d \in DOMAIN s.hours_by_day |->
                IF flag = "all" \/ s.hours_by_day[d][flag] THEN s.hours_by_day[d][field] ELSE 0])

\* C22: for every employee of a returned Solution hours_assigned is the sum of the
\* durations of the shifts Solution.assignments gives to the employee, and hours_night,
\* hours_holiday and hours_sunday, in centihours, are 100 times the sums over the DayHours
\* of those shifts of night_hours, of total_hours where is_holiday and of total_hours
\* where is_sunday.
HoursFromAssignmentMap ==
    Returned =>
       \A e \in Employees(cfg) :
          LET m == solution.employee_metrics[e]
              mine == HeldInSolution(e)
              Total(field, flag) ==
                  SumOver(mine, [i \in mine |-> DayHoursSum(Opt.shifts[i], field, flag)])
          IN /\ m.hours_assigned = SumOver(mine, [i \in mine |-> Opt.shifts[i].duration_hours])
             /\ m.hours_night = 100 * Total("night_hours", "all")
             /\ m.hours_holiday = 100 * Total("total_hours", "is_holiday")
             /\ m.hours_sunday = 100 * Total("total_hours", "is_sunday")

\* every post has at least three FIJO employees, of distinct salaries
ThreeFixedOfDistinctSalaries ==
    \A p \in Posts(cfg) :
       /\ Cardinality(FixedEmployeesOf(cfg, p)) >= 3
       /\ \A e \in FixedEmployeesOf(cfg, p) : \A f \in FixedEmployeesOf(cfg, p) :
             e # f => cfg.employees[e].salario_contrato # cfg.employees[f].salario_contrato

\* the Sunday work forces an excess: every assignment the model allows has an employee with
\* excess_sundays = 1
ExcessForced(model) == \A block \in model : \A v \in block : v.excess_sundays # {}

\* C23: under the smart strategy, with at least three FIJO employees of distinct salaries
\* on every post and enough Sunday work to force an employee over the threshold, the only
\* FIJO employee of a post with excess_sundays = 1 in the returned solution is the cheapest
\* one (the champion), and every employee in the role "others" (third cheapest onwards)
\* has a reported num_sundays <= sunday_threshold.
OnlyChampionInExcess ==
    (/\ Returned
     /\ sunday_strategy = "smart"
     /\ ThreeFixedOfDistinctSalaries
     /\ ExcessForced(Model)) =>
       \A p \in Posts(cfg) : \A e \in FixedEmployeesOf(cfg, p) :
          /\ e \in vals.excess_sundays => SalaryRank(cfg, e) = 0
          /\ SalaryRank(cfg, e) >= 2 =>
                solution.employee_metrics[e].num_sundays <= cfg.sunday_threshold

\* the employees of the returned Solution with hours_assigned > 0
EmployeesWithHours == {e \in Employees(cfg) : solution.employee_metrics[e].hours_assigned > 0}

\* C24: in every returned Solution total_metrics.total_cost is the sum of total_employee
\* over the employees with hours_assigned > 0, and is
\* total_val_he + total_val_rf + total_val_rn + total_salary_base.
TotalCostAddsUp ==
    Returned =>
       LET t == solution.total_metrics
       IN /\ t.total_cost =
                SumOver(EmployeesWithHours,
                        [e \in EmployeesWithHours |-> solution.employee_metrics[e].total_employee])
          /\ t.total_cost =
                t.total_val_he + t.total_val_rf + t.total_val_rn + t.total_salary_base

\* a returned Solution with a holiday surcharge in the total, in which an employee
\* without hours has a total of its own
TotalLeavesOutIdleEmployee ==
    /\ Returned
    /\ solution.total_metrics.total_val_rf > 0
    /\ solution.total_metrics.total_cost > solution.total_metrics.total_salary_base
    /\ \E e \in Employees(cfg) \ EmployeesWithHours :
          solution.employee_metrics[e].total_employee > 0

\* C25: in every solution solve_lexicographic returns he_hours[e] is
\* max(0, 100 * hours_assigned[e] - hours_budget), never more, with hours_budget the
\* centihours of (hours_per_week / 7) * days_in_month, and has_he[e] is 1 exactly when
\* hours_assigned[e] exceeds that budget, which is when he_hours[e] > 0.
OvertimeIsExcessOverBudget ==
    Returned =>
       \A e \in Employees(cfg) :
          LET hours_budget == (100 * cfg.hours_per_week * NumDays) \div 7
              over == 100 * vals.hours_assigned[e] - hours_budget
          IN /\ vals.he_hours[e] = IF over > 0 THEN over ELSE 0
             /\ e \in vals.has_he <=> 7 * vals.hours_assigned[e] > cfg.hours_per_week * NumDays
             /\ e \in vals.has_he <=> vals.he_hours[e] > 0
             /\ e \in solution.active_employees =>
                   solution.employee_metrics[e].he_hours = vals.he_hours[e]

\* a returned solution with an employee over the budget and another at work within it
OverAndWithinBudget ==
    /\ Returned
    /\ \E e \in Employees(cfg) : vals.he_hours[e] > 0 /\ e \in vals.has_he
    /\ \E e \in Employees(cfg) :
          /\ vals.hours_assigned[e] > 0
          /\ vals.he_hours[e] = 0
          /\ e \notin vals.has_he

\* the positions in the returned list of the shifts of post p dated d, in list order
SlotsOf(p, d) ==
    SelectSeq([i \in 1..Len(result.value) |-> i],
              LAMBDA i : result.value[i].post_id = p /\ result.value[i].date = d)

\* the hour of day h lies in the night window [night_start, day_start)
InNightWindow(c, h) ==
    IF c.night_start > c.day_start
    THEN h >= c.night_start \/ h < c.day_start
    ELSE h >= c.night_start /\ h < c.day_start

\* C26: with shift_length_hours = 8, for every shift_start_time and night window,
\* generate_shifts emits three slots per post and day, starting 0, 8 and 16 hours after
\* shift_start_time, and the third slot is labelled NIGHT exactly when its start time lies
\* in the night window [night_start, day_start), DAY otherwise.
ThreeSlotsThirdByWindow ==
    (ShiftsReturned /\ call.config.shift_length_hours = 8) =>
       \A p \in 1..Len(call.config.posts) : \A d \in 1..NumDays :
          (call.config.posts[p].allow_day_shift /\ call.config.posts[p].allow_night_shift) =>
             LET slots == SlotsOf(p, d)
                 from == Midnight(d) + call.config.shift_start_time
             IN /\ Len(slots) = 3
                /\ \A k \in 1..3 : ShiftStart(result.value[slots[k]]) = from + 8 * (k - 1)
                /\ result.value[slots[3]].is_night
                      <=> InNightWindow(call.config, result.value[slots[3]].start_time)

\* C27: with shift_length_hours = 12, for every shift_start_time, the NIGHT slot of day d
\* starts exactly twelve hours after the start of the DAY slot of day d: the two slots are
\* disjoint, abut and cover the 24 hours that begin at shift_start_time on d.
NightSlotTwelveHoursAfterDay ==
    (ShiftsReturned /\ call.config.shift_length_hours = 12) =>
       \A p \in 1..Len(call.config.posts) : \A d \in 1..NumDays :
          (call.config.posts[p].allow_day_shift /\ call.config.posts[p].allow_night_shift) =>
             LET slots == SlotsOf(p, d)
                 from == Midnight(d) + call.config.shift_start_time
             IN /\ Len(slots) = 2
                /\ ~result.value[slots[1]].is_night
                /\ result.value[slots[2]].is_night
                /\ ShiftStart(result.value[slots[1]]) = from
                /\ ShiftStart(result.value[slots[2]]) = ShiftStart(result.value[slots[1]]) + 12
                /\ ShiftEnd(result.value[slots[1]]) = ShiftStart(result.value[slots[2]])
                /\ ShiftEnd(result.value[slots[2]]) = from + 24

\* C28: no two shifts returned by generate_shifts share a shift_id, for the shift lengths
\* 12 and 8 and every list of posts with distinct post ids, so that a table keyed by
\* shift_id has one entry for every generated shift.
ShiftIdsDistinct ==
    (ShiftsReturned /\ call.config.shift_length_hours \in {8, 12}) =>
       /\ \A i \in 1..Len(result.value) : \A j \in 1..Len(result.value) :
             i # j => result.value[i].shift_id # result.value[j].shift_id
       /\ Cardinality({result.value[i].shift_id : i \in 1..Len(result.value)})
             = Len(result.value)

\* C29: in every returned solution no employee is assigned a shift whose date lies outside
\* the employee's availability window [disponible_desde, disponible_hasta].
AssignedWithinAvailability ==
    Returned =>
       \A e \in Employees(cfg) : \A i \in HeldByX(e) \cup HeldInSolution(e) :
          /\ Opt.shifts[i].date >= cfg.employees[e].disponible_desde
          /\ Opt.shifts[i].date <= cfg.employees[e].disponible_hasta

\* C30: for every employee of a returned Solution rf_hours_applied never exceeds
\* hours_assigned: no worked hour counts more than once towards the holiday surcharge,
\* the hours of a date that is both a Sunday and a holiday worked by an employee over the
\* Sunday threshold included.
RfWithinHoursAssigned ==
    Returned =>
       \A e \in Employees(cfg) :
          solution.employee_metrics[e].rf_hours_applied
             <= 100 * solution.employee_metrics[e].hours_assigned

====
